---- MODULE Spec2Model ----
(***************************************************************************)
(* A model of the sacc2 data set (src/sacc2/sacc.py) and of its covariance *)
(* classes (src/sacc2/covariance.py).                                      *)
(*                                                                         *)
(* Conventions.                                                            *)
(*  - Python positions are 0-based, TLA+ sequences 1-based: the element at *)
(*    Python position i of a list s is s[i + 1].                           *)
(*  - A 2-d numpy array is a sequence of rows, each a sequence of numbers. *)
(*  - An operation that can raise returns [err |-> e, val |-> v], where e  *)
(*    is "ok" or the name of the Python exception.                         *)
(*  - covariance.py is read with numpy bound to np (sacc.py line 1 imports *)
(*    it under that name) and with the class statement of line 143 closed  *)
(*    by its colon; every other name is resolved as Python resolves it, so *)
(*    an unbound name inside a method body raises NameError when reached.  *)
(*  - np.bool (sacc.py line 280) is numpy's boolean dtype, as in the numpy  *)
(*    releases that define that name.                                      *)
(***************************************************************************)
EXTENDS Integers, Sequences, FiniteSets, TLC

VARIABLES data, tracers, covariance, last, pre

vars == <<data, tracers, covariance, last, pre>>

(***************************************************************************)
(* Bounds of the model.                                                    *)
(***************************************************************************)
MaxRecords == 2
CovMaxN == 3
MaxSel == 3
FindMaxN == 3
FileMaxN == 2

(***************************************************************************)
(* Sequence and array helpers.                                             *)
(***************************************************************************)
Range(s) == {s[i] : i \in DOMAIN s}

RECURSIVE SumSeq(_)
SumSeq(s) == IF s = <<>> THEN 0 ELSE Head(s) + SumSeq(Tail(s))

SeqsUpTo(S, n) == UNION {[1..k -> S] : k \in 0..n}

\* A Python / numpy index i into an axis of length n: negative indices count
\* from the end, anything outside [-n, n) raises IndexError.
IndexOk(i, n) == (-n <= i) /\ (i < n)

Pos(i, n) == IF i < 0 THEN i + n + 1 ELSE i + 1

AllIndexOk(idx, n) == \A k \in DOMAIN idx : IndexOk(idx[k], n)

\* a[idx] on a 1-d sequence, for in-range idx.
Take(s, idx) == [k \in DOMAIN idx |-> s[Pos(idx[k], Len(s))]]

\* C[idx][:, idx] on a square 2-d array, for in-range idx.
Take2(C, idx) ==
    [a \in DOMAIN idx |->
        [b \in DOMAIN idx |-> C[Pos(idx[a], Len(C))][Pos(idx[b], Len(C))]]]

\* The positions (0-based, increasing) at which a boolean array is True:
\* indexing with a boolean array selects exactly these.
RECURSIVE TruePositions(_)
TruePositions(mask) ==
    IF mask = <<>> THEN <<>>
    ELSE LET n == Len(mask)
             front == TruePositions(SubSeq(mask, 1, n - 1))
         IN IF mask[n] THEN Append(front, n - 1) ELSE front

\* ~mask on a boolean array.
Invert(mask) == [k \in DOMAIN mask |-> ~mask[k]]

\* (np.diff(mask) > 0).all()
StrictlyIncreasing(idx) == \A k \in 1..(Len(idx) - 1) : idx[k + 1] - idx[k] > 0

\* An array argument is [ndim, val]: val is a number (ndim 0), a sequence of
\* numbers (ndim 1), a sequence of rows (ndim 2), and so on.
\* np.atleast_2d: a scalar becomes 1x1, a vector of length k becomes 1xk,
\* arrays of two or more dimensions are returned as they are.
atleast_2d(a) ==
    CASE a.ndim = 0 -> [ndim |-> 2, val |-> << <<a.val>> >>]
      [] a.ndim = 1 -> [ndim |-> 2, val |-> <<a.val>>]
      [] OTHER -> a

\* .shape of a 2-d array.
Shape(a) == <<Len(a.val), IF Len(a.val) = 0 THEN 0 ELSE Len(a.val[1])>>

Ok(v) == [err |-> "ok", val |-> v]

Raise(e) == [err |-> e, val |-> <<>>]

(***************************************************************************)
(* The three covariance classes.                                           *)
(***************************************************************************)
None == [type |-> "none"]

\* FullCovariance.__init__: covmat is the matrix (atleast_2d of a 2-d array).
FullCovariance(C) == [type |-> "full", covmat |-> C]

\* BlockDiagonalCovariance.__init__: the blocks; block_sizes and total_size
\* are derived from them.
BlockDiagonalCovariance(blocks) == [type |-> "block", blocks |-> blocks]

block_sizes(cov) == [b \in DOMAIN cov.blocks |-> Len(cov.blocks[b])]

total_size(cov) == SumSeq(block_sizes(cov))

\* DiagonalCovariance.__init__: the vector of variances; size is its length.
DiagonalCovariance(D) == [type |-> "diagonal", diag |-> D]

\* The number of indices a covariance covers: covmat.shape[0], total_size
\* or size, by class.
Size(cov) ==
    CASE cov.type = "full" -> Len(cov.covmat)
      [] cov.type = "block" -> total_size(cov)
      [] cov.type = "diagonal" -> Len(cov.diag)

\* The entry that stands for a numpy object (not a number) held in an
\* object array; every numeric entry of the model is positive.
ObjectEntry == 0 - 1

\* BaseCovariance.make(cov, n). cov is [kind, items]: a Python list of
\* blocks (kind "list") or anything else (kind "array", items = <<a>>).
RECURSIVE make_blocks(_, _, _)
make_blocks(items, s, n) ==
    IF items = <<>>
    THEN IF s # n THEN Raise("ValueError") ELSE Ok(<<>>)
    ELSE LET block == atleast_2d(Head(items))
         IN IF (block.ndim # 2) \/ (Shape(block)[1] # Shape(block)[2])
            THEN Raise("ValueError")
            ELSE make_blocks(Tail(items), s + Shape(block)[1], n)

\* make without the comparison of the size with n (lines 28 and 33).
make_NoSizeCheck(cov, n) ==
    IF cov.kind = "list"
    THEN IF \E b \in DOMAIN cov.items :
               LET block == atleast_2d(cov.items[b])
               IN (block.ndim # 2) \/ (Shape(block)[1] # Shape(block)[2])
         THEN Raise("ValueError")
         ELSE Ok(BlockDiagonalCovariance(
                  [b \in DOMAIN cov.items |-> atleast_2d(cov.items[b]).val]))
    ELSE LET c == atleast_2d(cov.items[1])
         IN IF (c.ndim # 2) \/ (Shape(c)[1] # Shape(c)[2])
            THEN Raise("ValueError")
            ELSE Ok(FullCovariance(c.val))

make(cov, n) ==
    IF cov.kind = "list"
    THEN LET r == make_blocks(cov.items, 0, n)
         IN IF r.err # "ok" THEN r
            ELSE Ok(BlockDiagonalCovariance(
                     [b \in DOMAIN cov.items |-> atleast_2d(cov.items[b]).val]))
    ELSE LET c == atleast_2d(cov.items[1])
         IN IF (c.ndim # 2) \/ (Shape(c)[1] # Shape(c)[2]) \/ (Shape(c)[1] # n)
            THEN Raise("ValueError")
            ELSE Ok(FullCovariance(c.val))

\* A selector handed to masked / get_block is [kind, idx]: a Python list of
\* integers (kind "list"), an integer numpy array ("array") or a boolean
\* numpy array ("bool").
IntIdx(sel) == IF sel.kind = "bool" THEN TruePositions(sel.idx) ELSE sel.idx

\* Whether numpy accepts indexing an axis of length n with the selector: a
\* boolean array must have length n, integers must lie in [-n, n).
SelOk(sel, n) ==
    IF sel.kind = "bool" THEN Len(sel.idx) = n ELSE AllIndexOk(sel.idx, n)

\* FullCovariance.masked with the rows selected and the columns left.
FullMasked_RowsOnly(cov, mask) ==
    IF ~SelOk(mask, Len(cov.covmat)) THEN Raise("IndexError")
    ELSE Ok(FullCovariance(Take(cov.covmat, IntIdx(mask))))

\* FullCovariance.masked: self.covmat[mask][:,mask].
FullMasked(cov, mask) ==
    IF ~SelOk(mask, Len(cov.covmat)) THEN Raise("IndexError")
    ELSE Ok(FullCovariance(Take2(cov.covmat, IntIdx(mask))))

\* FullCovariance.get_block: self.covmat[indices][:,indices].
FullGetBlock(cov, indices) ==
    IF ~SelOk(indices, Len(cov.covmat)) THEN Raise("IndexError")
    ELSE Ok(Take2(cov.covmat, IntIdx(indices)))

\* DiagonalCovariance.masked: self.diag[mask].
DiagonalMasked(cov, mask) ==
    IF ~SelOk(mask, Len(cov.diag)) THEN Raise("IndexError")
    ELSE Ok(DiagonalCovariance(Take(cov.diag, IntIdx(mask))))

\* DiagonalCovariance.get_block: np.diagonal(self.diag[indices]). The
\* argument of np.diagonal is 1-d, and np.diagonal requires two dimensions.
DiagonalGetBlock(cov, indices) ==
    IF ~SelOk(indices, Len(cov.diag)) THEN Raise("IndexError")
    ELSE Raise("ValueError")

\* Whether the blocks do not all have one size: np.atleast_2d of the list of
\* blocks is then a ragged nested sequence.
Ragged(cov) ==
    \E a, b \in DOMAIN cov.blocks : Len(cov.blocks[a]) # Len(cov.blocks[b])

\* Lines 130-132 of BlockDiagonalCovariance.masked. block_diag is given the
\* list of blocks as ONE argument and applies np.atleast_2d to it:
\*  - no block: a 1x0 array, and indexing its columns raises IndexError;
\*  - blocks of one size: a 3-d array, which block_diag rejects (ValueError);
\*  - blocks of several sizes: ValueError in a numpy that refuses ragged
\*    nested sequences; in a numpy that builds an object array from them
\*    (object_arrays), a 1 x nblocks array of objects, whose single row is
\*    then indexed by mask (IndexError unless every index is 0 or -1).
BlockDensify(cov, mask, object_arrays) ==
    IF cov.blocks = <<>> THEN Raise("IndexError")
    ELSE IF ~Ragged(cov) \/ ~object_arrays THEN Raise("ValueError")
    ELSE IF ~AllIndexOk(mask.idx, 1) THEN Raise("IndexError")
    ELSE Ok(FullCovariance(
                [a \in DOMAIN mask.idx |-> [b \in DOMAIN mask.idx |-> ObjectEntry]]))

\* BlockDiagonalCovariance.masked.
\*  - a Python list has no dtype attribute (line 115): AttributeError;
\*  - boolean array: self.blocks is a list and m an array (line 118), and a
\*    list cannot be indexed by a boolean array: TypeError;
\*  - strictly increasing integers: the loop body reads the unbound name
\*    block (line 126): NameError as soon as there is one block;
\*  - otherwise lines 130-132.
BlockDiagonalMasked(cov, mask, object_arrays) ==
    CASE mask.kind = "list" -> Raise("AttributeError")
      [] mask.kind = "bool" -> Raise("TypeError")
      [] OTHER ->
           IF StrictlyIncreasing(mask.idx)
           THEN IF cov.blocks = <<>>
                THEN Ok(BlockDiagonalCovariance(<<>>))
                ELSE Raise("NameError")
           ELSE BlockDensify(cov, mask, object_arrays)

\* BlockDiagonalCovariance.get_block. With no block the loop is skipped and
\* block_diag([]) is a 1x0 array. Otherwise the first iteration compares
\* indices with an integer (TypeError for a Python list) and then reads the
\* unbound name block (line 108): NameError.
BlockDiagonalGetBlock(cov, indices) ==
    IF cov.blocks = <<>> THEN Ok(<< <<>> >>)
    ELSE IF indices.kind = "list" THEN Raise("TypeError")
    ELSE Raise("NameError")

\* covariance.masked(mask), dispatched on the class.
masked(cov, mask, object_arrays) ==
    CASE cov.type = "full" -> FullMasked(cov, mask)
      [] cov.type = "block" -> BlockDiagonalMasked(cov, mask, object_arrays)
      [] cov.type = "diagonal" -> DiagonalMasked(cov, mask)

\* covariance.get_block(indices), dispatched on the class.
get_block(cov, indices) ==
    CASE cov.type = "full" -> FullGetBlock(cov, indices)
      [] cov.type = "block" -> BlockDiagonalGetBlock(cov, indices)
      [] cov.type = "diagonal" -> DiagonalGetBlock(cov, indices)

\* A FITS HDU as far as the covariance classes use it: the header cards
\* saccclss, size and blocks (0 - 1 when the card is not set), the
\* size_i cards, and the data.
Hdu(saccclss, size, blocks, sizes, hdu_data) ==
    [saccclss |-> saccclss, size |-> size, blocks |-> blocks,
     sizes |-> sizes, data |-> hdu_data]

NoCard == 0 - 1

\* FullCovariance.to_fits
FullToFits(cov) ==
    Ok(Hdu("full", Len(cov.covmat), NoCard, <<>>, cov.covmat))

\* BlockDiagonalCovariance.to_fits: np.concatenate of an empty list raises
\* ValueError; with blocks, line 80 reads self.covmat, which a
\* BlockDiagonalCovariance does not have: AttributeError.
BlockDiagonalToFits(cov) ==
    IF cov.blocks = <<>> THEN Raise("ValueError") ELSE Raise("AttributeError")

\* DiagonalCovariance.to_fits: Table(names=['variance'], data=self.diag)
\* with a 1-d array as data. Whether astropy builds a one-column table from
\* it (table_from_vector) or raises depends on the astropy in use.
DiagonalToFits(cov, table_from_vector) ==
    IF table_from_vector
    THEN Ok(Hdu("diagonal", NoCard, NoCard, <<>>, cov.diag))
    ELSE Raise("IndexError")

\* covariance.to_fits(), dispatched on the class.
to_fits(cov, table_from_vector) ==
    CASE cov.type = "full" -> FullToFits(cov)
      [] cov.type = "block" -> BlockDiagonalToFits(cov)
      [] cov.type = "diagonal" -> DiagonalToFits(cov, table_from_vector)

\* FullCovariance.from_fits: cls(hdu.data).
FullFromFits(hdu) == Ok(FullCovariance(hdu.data))

\* DiagonalCovariance.from_fits: cls(hdu.data['variance']).
DiagonalFromFits(hdu) == Ok(DiagonalCovariance(hdu.data))

\* BlockDiagonalCovariance.from_fits: block i is the next size_i squared
\* values of the data, reshaped to size_i x size_i.
BlockDiagonalFromFits(hdu) ==
    Ok(BlockDiagonalCovariance(
        [b \in 1..hdu.blocks |->
            LET sz == hdu.sizes[b]
                s == SumSeq([c \in 1..(b - 1) |-> hdu.sizes[c] * hdu.sizes[c]])
            IN [i \in 1..sz |-> [j \in 1..sz |->
                   hdu.data[s + (i - 1) * sz + j]]]]))

\* cls.from_fits(hdu) called on the subclass the header names.
subclass_from_fits(hdu) ==
    CASE hdu.saccclss = "full" -> FullFromFits(hdu)
      [] hdu.saccclss = "block" -> BlockDiagonalFromFits(hdu)
      [] hdu.saccclss = "diagonal" -> DiagonalFromFits(hdu)

\* BaseCovariance.from_fits: a classmethod whose parameter is cls; line 16
\* reads self (and subcls), which are not bound: NameError, before any
\* subclass is looked up.
from_fits(hdu) == Raise("NameError")

(***************************************************************************)
(* The data set (class Sacc).                                              *)
(***************************************************************************)
\* allowed_types, in the order of the table.
allowed_types ==
    << "shear_xi_plus", "shear_xi_minus", "shear_ee", "shear_bb",
       "galaxy_density_cl", "galaxy_density_w", "ggl_gamma_t", "ggl_gamma_x",
       "ggl_E", "ggl_B" >>

\* allowed_types.index(t), 0-based.
TypeIndex(t) == (CHOOSE k \in DOMAIN allowed_types : allowed_types[k] = t) - 1

\* DataPoint.__init__ (an unknown data_type only warns). tags is a function
\* from the tag names present to their values.
DataPoint(data_type, trs, value, tags) ==
    [data_type |-> data_type, tracers |-> trs, value |-> value, tags |-> tags]

\* The order of Python strings on the tracer names of the model.
NameRank(name) == CASE name = "A" -> 1 [] name = "B" -> 2

\* Python's < on tuples of strings.
RECURSIVE TupleLess(_, _)
TupleLess(s, t) ==
    IF t = <<>> THEN FALSE
    ELSE IF s = <<>> THEN TRUE
    ELSE IF NameRank(Head(s)) # NameRank(Head(t))
         THEN NameRank(Head(s)) < NameRank(Head(t))
         ELSE TupleLess(Tail(s), Tail(t))

\* order_key of to_canonical_order; h is hash(row.data_type), the value
\* Python's string hash takes in the running process.
order_key(row, h) ==
    LET dt == IF row.data_type \in Range(allowed_types)
              THEN TypeIndex(row.data_type) ELSE h
        x == IF "ell" \in DOMAIN row.tags THEN row.tags["ell"]
             ELSE IF "theta" \in DOMAIN row.tags THEN row.tags["theta"]
             ELSE 0
    IN <<dt, row.tracers, x>>

\* Python's < on the key tuples.
KeyLess(k1, k2) ==
    IF k1[1] # k2[1] THEN k1[1] < k2[1]
    ELSE IF k1[2] # k2[2] THEN TupleLess(k1[2], k2[2])
    ELSE k1[3] < k2[3]

\* sorted(enumerate(self.data), key=...): a stable sort; the 0-based
\* positions of the records in sorted order.
RECURSIVE InsertByKey(_, _, _, _)
InsertByKey(s, i, rows, h) ==
    IF s = <<>> THEN <<i>>
    ELSE IF KeyLess(order_key(rows[i + 1], h), order_key(rows[Head(s) + 1], h))
         THEN <<i>> \o s
         ELSE <<Head(s)>> \o InsertByKey(Tail(s), i, rows, h)

RECURSIVE SortedIndices(_, _, _)
SortedIndices(rows, n, h) ==
    IF n = 0 THEN <<>>
    ELSE InsertByKey(SortedIndices(rows, n - 1, h), n - 1, rows, h)

\* The state a call starts from, and what the last call was and returned.
Snapshot == [data |-> data, tracers |-> tracers, covariance |-> covariance]

Call(op, arg, err, ret) == [op |-> op, arg |-> arg, err |-> err, ret |-> ret]

\* Sacc.__init__
Init ==
    /\ data = <<>>
    /\ tracers = {}
    /\ covariance = None
    /\ last = Call("init", <<>>, "ok", <<>>)
    /\ pre = [data |-> <<>>, tracers |-> {}, covariance |-> None]

\* Sacc.add_tracer_object
add_tracer_object(name) ==
    /\ tracers' = tracers \cup {name}
    /\ last' = Call("add_tracer_object", name, "ok", <<>>)
    /\ pre' = Snapshot
    /\ UNCHANGED <<data, covariance>>

\* add_data_point without the test of line 236.
add_data_point_check_NoCovarianceTest(trs, tracers_later) ==
    IF \E k \in DOMAIN trs : (trs[k] \notin tracers) /\ ~tracers_later
    THEN "ValueError"
    ELSE "ok"

\* The error add_data_point raises, or "ok".
add_data_point_check(trs, tracers_later) ==
    IF covariance # None THEN "ValueError"
    ELSE IF \E k \in DOMAIN trs : (trs[k] \notin tracers) /\ ~tracers_later
         THEN "ValueError"
         ELSE "ok"

\* Sacc.add_data_point
add_data_point(data_type, trs, value, tracers_later, tags) ==
    LET e == add_data_point_check(trs, tracers_later)
    IN /\ data' = IF e = "ok"
                  THEN Append(data, DataPoint(data_type, trs, value, tags))
                  ELSE data
       /\ last' = Call("add_data_point", <<>>, e, <<>>)
       /\ pre' = Snapshot
       /\ UNCHANGED <<tracers, covariance>>

\* Sacc.add_covariance; arg is what the history keeps of the argument.
add_covariance_as(arg, cov) ==
    LET r == make(cov, Len(data))
    IN /\ covariance' = IF r.err = "ok" THEN r.val ELSE covariance
       /\ last' = Call("add_covariance", arg, r.err, <<>>)
       /\ pre' = Snapshot
       /\ UNCHANGED <<data, tracers>>

add_covariance(cov) == add_covariance_as(cov, cov)

\* The state after self.data has been assigned new_data and, when a
\* covariance is attached, self.covariance.masked(sel) has been called: an
\* exception raised by masked leaves the new data with the old covariance.
AssignDataThenMask(op, arg, new_data, sel, object_arrays) ==
    LET r == IF covariance = None THEN Ok(None)
             ELSE masked(covariance, sel, object_arrays)
    IN /\ data' = new_data
       /\ covariance' = IF r.err = "ok" THEN r.val ELSE covariance
       /\ last' = Call(op, arg, r.err, <<>>)
       /\ pre' = Snapshot
       /\ UNCHANGED tracers

\* An exception raised before anything is assigned.
Fail(op, arg, e) ==
    /\ last' = Call(op, arg, e, <<>>)
    /\ pre' = Snapshot
    /\ UNCHANGED <<data, tracers, covariance>>

\* Sacc.reorder, called as op; arg is what the history keeps of the
\* argument. indices is [kind, idx], a Python list or a numpy array of
\* integers.
reorder_as(op, arg, indices, object_arrays) ==
    IF ~AllIndexOk(indices.idx, Len(data))
    THEN Fail(op, arg, "IndexError")
    ELSE AssignDataThenMask(op, arg, Take(data, indices.idx), indices,
                            object_arrays)

reorder(indices, object_arrays) ==
    reorder_as("reorder", indices, indices, object_arrays)

\* Sacc.to_canonical_order: reorder with the Python list of sorted positions.
to_canonical_order(h, object_arrays) ==
    reorder_as("to_canonical_order", <<>>,
               [kind |-> "list", idx |-> SortedIndices(data, Len(data), h)],
               object_arrays)

\* Lines 277-289 of Sacc.cut: the boolean mask (True = remove) or the error.
\* mask is np.array(mask) as [dtype, elems]; dtype is "bool", "int", or
\* "float" (which np.array gives the empty Python list too).
cut_mask(mask, n) ==
    IF mask.dtype # "bool"
    THEN IF mask.dtype # "int" THEN Raise("ValueError")
         ELSE IF ~AllIndexOk(mask.elems, n) THEN Raise("IndexError")
         ELSE Ok([k \in 1..n |->
                     \E j \in DOMAIN mask.elems : Pos(mask.elems[j], n) = k])
    ELSE IF Len(mask.elems) # n THEN Raise("ValueError")
         ELSE Ok(mask.elems)

\* The comprehension of line 291 with the test "if mask[i]".
Unmasked_KeepsTheMasked(rows, m) == Take(rows, TruePositions(m))

\* [d for i,d in enumerate(self.data) if not mask[i]]
Unmasked(rows, m) == Take(rows, TruePositions(Invert(m)))

\* Sacc.cut; arg is what the history keeps of the argument.
cut_as(arg, mask, object_arrays) ==
    LET m == cut_mask(mask, Len(data))
    IN IF m.err # "ok"
       THEN Fail("cut", arg, m.err)
       ELSE AssignDataThenMask("cut", arg, Unmasked(data, m.val),
                               [kind |-> "bool", idx |-> Invert(m.val)],
                               object_arrays)

cut(mask, object_arrays) == cut_as(mask, mask, object_arrays)

\* self.covariance.get_block(indices) on the attached covariance.
covariance_get_block(indices) ==
    LET r == get_block(covariance, indices)
    IN /\ covariance # None
       /\ last' = Call("get_block", indices, r.err, r.val)
       /\ pre' = Snapshot
       /\ UNCHANGED <<data, tracers, covariance>>

\* self.covariance.masked(mask) on the attached covariance: the result is
\* returned, the data set is not changed.
covariance_masked(mask, object_arrays) ==
    LET r == masked(covariance, mask, object_arrays)
    IN /\ covariance # None
       /\ last' = Call("masked", mask, r.err, r.val)
       /\ pre' = Snapshot
       /\ UNCHANGED <<data, tracers, covariance>>

\* BaseCovariance.from_fits(self.covariance.to_fits()) on the attached
\* covariance.
covariance_fits_round_trip(table_from_vector) ==
    LET h == to_fits(covariance, table_from_vector)
        r == IF h.err # "ok" THEN h ELSE from_fits(h.val)
    IN /\ covariance # None
       /\ last' = Call("fits_round_trip", <<>>, r.err, r.val)
       /\ pre' = Snapshot
       /\ UNCHANGED <<data, tracers, covariance>>

\* The same with from_fits called on the class of the covariance itself.
covariance_subclass_round_trip(table_from_vector) ==
    LET h == to_fits(covariance, table_from_vector)
        r == IF h.err # "ok" THEN h ELSE subclass_from_fits(h.val)
    IN /\ covariance # None
       /\ last' = Call("subclass_round_trip", <<>>, r.err, r.val)
       /\ pre' = Snapshot
       /\ UNCHANGED <<data, tracers, covariance>>

\* DataPoint.get_tag: self.tags.get(tag), which is None for a missing tag.
get_tag(d, tag) ==
    IF tag \in DOMAIN d.tags
    THEN [none |-> FALSE, val |-> d.tags[tag]]
    ELSE [none |-> TRUE, val |-> 0]

\* An optional argument, as the set of the values it asks for: empty when
\* left at its default None.
NotGiven == {}

Given(x) == {x}

\* One entry of **select, [name, op, val]: name__lt=val, name__gt=val or
\* name=val (op "eq"), val a number. Lines 337-351 of Sacc.indices for it:
\* "true" or "false", or "TypeError" when None is ordered against a number.
select_test(d, p) ==
    LET t == get_tag(d, p.name)
    IN CASE p.op = "lt" ->
              IF t.none THEN "TypeError"
              ELSE IF t.val < p.val THEN "true" ELSE "false"
         [] p.op = "gt" ->
              IF t.none THEN "TypeError"
              ELSE IF t.val > p.val THEN "true" ELSE "false"
         [] p.op = "eq" ->
              IF ~t.none /\ t.val = p.val THEN "true" ELSE "false"

\* The loop over select.items() (lines 336-351), which stops at the first
\* entry that fails: "true" (ok), "false" or "TypeError".
RECURSIVE select_loop(_, _)
select_loop(d, select) ==
    IF select = <<>> THEN "true"
    ELSE LET r == select_test(d, Head(select))
         IN IF r # "true" THEN r ELSE select_loop(d, Tail(select))

\* The loop over the data points (lines 328-354) from 0-based position i on,
\* with the positions found so far.
RECURSIVE indices_loop(_, _, _, _, _, _)
indices_loop(rows, i, data_type, trs, select, found) ==
    IF i >= Len(rows) THEN Ok(found)
    ELSE LET d == rows[i + 1]
         IN IF ~((trs = NotGiven) \/ (trs = Given(d.tracers)))
            THEN indices_loop(rows, i + 1, data_type, trs, select, found)
            ELSE IF ~((data_type = NotGiven) \/ (data_type = Given(d.data_type)))
            THEN indices_loop(rows, i + 1, data_type, trs, select, found)
            ELSE LET ok == select_loop(d, select)
                 IN IF ok = "TypeError" THEN Raise("TypeError")
                    ELSE indices_loop(rows, i + 1, data_type, trs, select,
                             IF ok = "true" THEN Append(found, i) ELSE found)

\* Sacc.indices
indices(data_type, trs, select) ==
    LET r == indices_loop(data, 0, data_type, trs, select, <<>>)
    IN /\ last' = Call("indices",
                       [data_type |-> data_type, tracers |-> trs,
                        select |-> select],
                       r.err, r.val)
       /\ pre' = Snapshot
       /\ UNCHANGED <<data, tracers, covariance>>

\* get_data_types: list(set of the data types); the order of the list is
\* the iteration order of a Python set of strings, any order of the types.
get_data_types(rows) ==
    LET types == {rows[k].data_type : k \in DOMAIN rows}
    IN {o \in [1..Cardinality(types) -> types] :
           \A a, b \in DOMAIN o : (a # b) => (o[a] # o[b])}

\* get_data_points(dt): the records of the type, in order.
get_data_points(rows, dt) ==
    Take(rows, indices_loop(rows, 0, Given(dt), NotGiven, <<>>, <<>>).val)

\* Lines 654-681 of Sacc.save for one data type: the table has the tracers
\* and the tags of the first record of the type; d[t] raises KeyError for a
\* record without one of these tags, and other tags are not written.
save_data_hdu(rows, dt) ==
    LET pts == get_data_points(rows, dt)
        tag_fields == DOMAIN pts[1].tags
    IN IF \E k \in DOMAIN pts : ~(tag_fields \subseteq DOMAIN pts[k].tags)
       THEN Raise("KeyError")
       ELSE Ok([saccname |-> dt,
                ntracer |-> Len(pts[1].tracers),
                rows |-> [k \in DOMAIN pts |->
                    [tracers |-> pts[k].tracers,
                     value |-> pts[k].value,
                     tags |-> [t \in tag_fields |-> pts[k].tags[t]]]]])

\* The data points load collects from the data sections, in file order.
RECURSIVE load_data_points(_)
load_data_points(hdus) ==
    IF hdus = <<>> THEN <<>>
    ELSE LET hdu == Head(hdus)
         IN [k \in DOMAIN hdu.rows |->
                DataPoint(hdu.saccname, hdu.rows[k].tracers,
                          hdu.rows[k].value, hdu.rows[k].tags)]
            \o load_data_points(Tail(hdus))

\* Sacc.load on a container [data, tracers, cov] (cov: no or one covariance
\* section). A covariance section goes through BaseCovariance.from_fits
\* while the file is read (line 736); the data set is built afterwards, and
\* add_covariance (line 754) hands the covariance object to make, where
\* np.atleast_2d turns it into a 1x1 array of objects.
load(container) ==
    LET cov == IF container.cov = <<>> THEN Ok(None)
               ELSE from_fits(container.cov[1])
        rows == load_data_points(container.data)
        made == make([kind |-> "array",
                      items |-> <<[ndim |-> 0, val |-> ObjectEntry]>>],
                     Len(rows))
    IN IF cov.err # "ok" THEN cov
       ELSE IF \E k \in DOMAIN rows :
                  ~(Range(rows[k].tracers) \subseteq container.tracers)
       THEN Raise("ValueError")
       ELSE IF cov.val = None
       THEN Ok([data |-> rows, tracers |-> container.tracers,
                covariance |-> None])
       ELSE IF made.err # "ok" THEN made
       ELSE Ok([data |-> rows, tracers |-> container.tracers,
                covariance |-> made.val])

\* Sacc.save followed by Sacc.load of the file written. save puts the data
\* set in canonical order (records first, then the covariance), writes one
\* section per data type in the order types, and the covariance section if
\* there is a covariance. The tracer and window sections are written and
\* read back by the tracer and window classes. The history has "save" when
\* save raised, else "load" with the container as argument.
save_then_load(types, h, object_arrays, table_from_vector) ==
    LET sorted == Take(data, SortedIndices(data, Len(data), h))
        m == IF covariance = None THEN Ok(None)
             ELSE masked(covariance,
                         [kind |-> "list",
                          idx |-> SortedIndices(data, Len(data), h)],
                         object_arrays)
        hdus == [k \in DOMAIN types |-> save_data_hdu(sorted, types[k])]
        c == IF m.val = None THEN Ok(<<>>)
             ELSE to_fits(m.val, table_from_vector)
        container == [data |-> [k \in DOMAIN hdus |-> hdus[k].val],
                      tracers |-> tracers,
                      cov |-> IF m.val = None THEN <<>> ELSE <<c.val>>]
        r == load(container)
    IN /\ data' = sorted
       /\ covariance' = IF m.err = "ok" THEN m.val ELSE covariance
       /\ pre' = Snapshot
       /\ UNCHANGED tracers
       /\ last' =
            IF m.err # "ok" THEN Call("save", <<>>, m.err, <<>>)
            ELSE IF \E k \in DOMAIN hdus : hdus[k].err # "ok"
            THEN Call("save", <<>>, "KeyError", <<>>)
            ELSE IF c.err # "ok" THEN Call("save", <<>>, c.err, <<>>)
            ELSE Call("load", container, r.err, r.val)

(***************************************************************************)
(* The inputs the calls are tried with.                                    *)
(***************************************************************************)
DataTypes == {"shear_ee", "galaxy_density_cl"}

TracerNames == {"A", "B"}

TracerTuples == {<<"A", "A">>}

Values == {1}

NoTags == [t \in {} |-> 0]

TagSets == {NoTags}

\* The values hash() is tried with for a data type outside allowed_types
\* (one below every table position, one between two of them); the key of a
\* data set of known types does not depend on it.
HashValues(rows) ==
    IF \A k \in DOMAIN rows : rows[k].data_type \in Range(allowed_types)
    THEN {0} ELSE {0 - 5, 3}

\* Whether the numpy in use builds an object array from a ragged nested
\* sequence (older releases) or refuses it (newer ones); only the masking
\* of a block-diagonal covariance with blocks of several sizes depends on it.
ObjectArrays(cov) ==
    IF cov.type = "block" /\ Ragged(cov) THEN BOOLEAN ELSE {FALSE}

\* Whether the astropy in use builds a table from a 1-d array; only the
\* to_fits of a diagonal covariance depends on it.
TableFromVector(cov) ==
    IF cov.type = "diagonal" THEN BOOLEAN ELSE {FALSE}

\* Entry (i, j), 1-based, of the covariance matrices the model attaches:
\* every entry names its own row and column.
Lab(i, j) == 10 * i + j

\* The size x size matrix of the entries at rows and columns off+1..off+size.
LabMatrix(off, size) ==
    [i \in 1..size |-> [j \in 1..size |-> Lab(off + i, off + j)]]

\* The blocks of the given sizes along the diagonal of that matrix.
LabBlocks(sizes) ==
    [b \in DOMAIN sizes |->
        LabMatrix(SumSeq(SubSeq(sizes, 1, b - 1)), sizes[b])]

Array2(m) == [ndim |-> 2, val |-> m]

\* The lists of block sizes that sum to at most n.
SizeLists(n) == {sz \in SeqsUpTo(1..n, n) : SumSeq(sz) <= n}

\* Arguments of add_covariance: square matrices of side 0..n+1, lists of
\* square blocks whose sides sum to 0..n+1, and arguments of wrong shape.
CovInputs(n) ==
    {[kind |-> "array", items |-> <<Array2(LabMatrix(0, k))>>] : k \in 0..(n + 1)}
    \cup {[kind |-> "list",
           items |-> [b \in DOMAIN sz |-> Array2(LabBlocks(sz)[b])]] :
              sz \in SizeLists(n) \cup {<<n + 1>>, <<n, 1>>}}
    \cup {[kind |-> k, items |-> <<Array2(<< <<11, 12>> >>)>>] :
              k \in {"array", "list"}}
    \cup {[kind |-> "array", items |-> <<Array2(<< <<11>>, <<21>> >>)>>]}

\* Arguments of add_covariance that are not 2-d arrays or lists of them: a
\* scalar, a vector, a 3-d array, a list of scalars, a list of a 3-d array.
OddCovInputs ==
    << [kind |-> "array", items |-> <<[ndim |-> 0, val |-> 11]>>],
       [kind |-> "array", items |-> <<[ndim |-> 1, val |-> <<11, 22>>]>>],
       [kind |-> "array", items |-> <<[ndim |-> 3, val |-> << << <<11>> >> >>]>>],
       [kind |-> "list", items |-> <<[ndim |-> 0, val |-> 11],
                                     [ndim |-> 0, val |-> 22]>>],
       [kind |-> "list", items |-> <<[ndim |-> 3, val |-> << << <<11>> >> >>]>>] >>

\* Index selectors of the given kinds for a data set of n records: every
\* sequence of in-range positions of length at most maxlen, one index past
\* the end, and -1.
SelectorsOf(kinds, n, maxlen) ==
    {[kind |-> k, idx |-> s] :
        k \in kinds,
        s \in SeqsUpTo(0..(n - 1), maxlen) \cup {<<n>>, <<0 - 1>>}}

Selectors(n, maxlen) == SelectorsOf({"list", "array"}, n, maxlen)

\* Only BlockDiagonalCovariance.masked tells a Python list from an array.
SelectorKinds(cov) ==
    IF cov.type = "block" THEN {"list", "array"} ELSE {"list"}

\* Boolean arrays of length n.
BoolMasks(n) == {[kind |-> "bool", idx |-> s] : s \in [1..n -> BOOLEAN]}

\* Arguments of cut for a data set of n records, as np.array sees them:
\* boolean masks of length n-1, n and n+1, integer index lists and arrays
\* (with the empty integer array), the empty Python list and a list of floats.
CutMasks(n, maxlen) ==
    {[dtype |-> "bool", elems |-> s] :
        s \in UNION {[1..k -> BOOLEAN] : k \in {n - 1, n, n + 1} \cap Nat}}
    \cup {[dtype |-> "int", elems |-> s] :
        s \in SeqsUpTo(0..(n - 1), maxlen) \cup {<<n>>, <<0 - 1>>}}
    \cup {[dtype |-> "float", elems |-> s] : s \in {<<>>, <<1>>}}

(***************************************************************************)
(* Spec: a data set built up from empty by calls of its methods. The        *)
(* history keeps the call, its outcome and the state it started from, not  *)
(* its argument.                                                           *)
(***************************************************************************)
Next ==
    \/ \E trs \in TracerTuples, k \in 1..2 : add_tracer_object(trs[k])
    \/ \E dt \in DataTypes, trs \in TracerTuples, v \in Values,
          later \in BOOLEAN, tags \in TagSets :
          /\ (add_data_point_check(trs, later) = "ok") => Len(data) < MaxRecords
          /\ add_data_point(dt, trs, v, later, tags)
    \/ \E cov \in CovInputs(MaxRecords) : add_covariance_as(<<>>, cov)
    \/ \E k \in DOMAIN OddCovInputs : add_covariance_as(<<>>, OddCovInputs[k])
    \/ \E sel \in SelectorsOf(SelectorKinds(covariance), Len(data), MaxRecords),
          oa \in ObjectArrays(covariance) :
          reorder_as("reorder", <<>>, sel, oa)
    \/ \E m \in CutMasks(Len(data), MaxRecords),
          oa \in ObjectArrays(covariance) : cut_as(<<>>, m, oa)
    \/ \E h \in HashValues(data), oa \in ObjectArrays(covariance) :
          to_canonical_order(h, oa)

Spec == Init /\ [][Next]_vars

(***************************************************************************)
(* CovSpec: one call on a sealed data set whose covariance has any of the  *)
(* three representations.                                                  *)
(***************************************************************************)
\* The k-th record of the sealed data sets: the records differ in value,
\* and between them have known and unknown types, both tracer pairs, and
\* an ell tag, a theta tag or no tag.
Point(k) ==
    DataPoint(
        CASE k % 3 = 1 -> "shear_ee" [] k % 3 = 2 -> "foo"
          [] OTHER -> "galaxy_density_cl",
        IF k % 2 = 1 THEN <<"A", "B">> ELSE <<"A", "A">>,
        k,
        CASE k % 3 = 1 -> [t \in {"ell"} |-> 10 - k]
          [] k % 3 = 2 -> NoTags
          [] OTHER -> [t \in {"theta"} |-> k])

\* The covariances of size n: dense, diagonal, and block-diagonal with every
\* list of block sizes.
Covariances(n) ==
    {FullCovariance(LabMatrix(0, n)),
     DiagonalCovariance([i \in 1..n |-> Lab(i, i)])}
    \cup {BlockDiagonalCovariance(LabBlocks(sz)) :
            sz \in {x \in SizeLists(n) : SumSeq(x) = n}}

\* A sealed data set of 0..CovMaxN records (the largest first).
CovInit ==
    \E m \in 0..CovMaxN :
        /\ data = [k \in 1..(CovMaxN - m) |-> Point(k)]
        /\ tracers = TracerNames
        /\ covariance \in Covariances(CovMaxN - m)
        /\ last = Call("init", <<>>, "ok", <<>>)
        /\ pre = [data |-> data, tracers |-> tracers, covariance |-> covariance]

FirstCall == last.op = "init"

CovNext ==
    \/ /\ FirstCall
       /\ \E sel \in Selectors(Len(data), MaxSel),
             oa \in ObjectArrays(covariance) : reorder(sel, oa)
    \/ /\ FirstCall
       /\ \E m \in CutMasks(Len(data), MaxSel),
             oa \in ObjectArrays(covariance) : cut(m, oa)
    \/ /\ FirstCall
       /\ \E h \in HashValues(data), oa \in ObjectArrays(covariance) :
             to_canonical_order(h, oa)
    \/ /\ FirstCall
       /\ \E sel \in Selectors(Len(data), MaxSel) : covariance_get_block(sel)
    \/ /\ FirstCall
       /\ \E sel \in Selectors(Len(data), MaxSel),
             oa \in ObjectArrays(covariance) : covariance_masked(sel, oa)
    \/ /\ FirstCall
       /\ \E sel \in BoolMasks(Len(data)),
             oa \in ObjectArrays(covariance) : covariance_masked(sel, oa)
    \/ /\ FirstCall
       /\ \E tv \in TableFromVector(covariance) : covariance_fits_round_trip(tv)
    \/ /\ FirstCall
       /\ \E tv \in TableFromVector(covariance) :
             covariance_subclass_round_trip(tv)

CovSpec == CovInit /\ [][CovNext]_vars

(***************************************************************************)
(* AttachSpec: one add_covariance call on a data set of 0..CovMaxN         *)
(* records, with or without a covariance already attached.                 *)
(***************************************************************************)
AttachInit ==
    \E m \in 0..CovMaxN :
        /\ data = [k \in 1..(CovMaxN - m) |-> Point(k)]
        /\ tracers = TracerNames
        /\ covariance \in {None} \cup Covariances(CovMaxN - m)
        /\ last = Call("init", <<>>, "ok", <<>>)
        /\ pre = [data |-> data, tracers |-> tracers, covariance |-> covariance]

AttachNext ==
    \/ /\ FirstCall
       /\ \E cov \in CovInputs(CovMaxN) : add_covariance(cov)
    \/ /\ FirstCall
       /\ \E k \in DOMAIN OddCovInputs : add_covariance(OddCovInputs[k])

AttachSpec == AttachInit /\ [][AttachNext]_vars

(***************************************************************************)
(* FindSpec: one indices call on a data set of 0..FindMaxN records, with   *)
(* or without a covariance.                                                *)
(***************************************************************************)
\* The tags a record of these data sets has: none, or ell with a value.
FindTagSets == {NoTags} \cup {[t \in {"ell"} |-> v] : v \in 1..2}

FindTracerTuples == {<<"A", "A">>, <<"A", "B">>}

FindRecords ==
    {DataPoint(dt, trs, 1, tags) :
        dt \in DataTypes, trs \in FindTracerTuples, tags \in FindTagSets}

\* The entries of **select: ell=1, ell__lt=2, ell__gt=1.
SelectEntries ==
    {[name |-> "ell", op |-> "eq", val |-> 1],
     [name |-> "ell", op |-> "lt", val |-> 2],
     [name |-> "ell", op |-> "gt", val |-> 1]}

\* **select is a dict: its keys (name and operator) are distinct.
Selects ==
    {sl \in SeqsUpTo(SelectEntries, Cardinality(SelectEntries)) :
        \A a, b \in DOMAIN sl : (a # b) => (sl[a] # sl[b])}

FindInit ==
    \E m \in 0..FindMaxN :
        /\ data \in [1..(FindMaxN - m) -> FindRecords]
        /\ tracers = TracerNames
        /\ covariance \in {None, FullCovariance(LabMatrix(0, FindMaxN - m))}
        /\ last = Call("init", <<>>, "ok", <<>>)
        /\ pre = [data |-> data, tracers |-> tracers, covariance |-> covariance]

FindNext ==
    /\ FirstCall
    /\ \E dt \in {NotGiven} \cup {Given(x) : x \in DataTypes},
          trs \in {NotGiven} \cup {Given(x) : x \in FindTracerTuples},
          sl \in Selects : indices(dt, trs, sl)

FindSpec == FindInit /\ [][FindNext]_vars

(***************************************************************************)
(* FileSpec: one save and load of a data set of 0..FileMaxN records, with  *)
(* or without a covariance.                                                *)
(***************************************************************************)
FileInit ==
    \E m \in 0..FileMaxN :
        /\ data \in [1..(FileMaxN - m) -> FindRecords]
        /\ tracers = TracerNames
        /\ covariance \in {None} \cup Covariances(FileMaxN - m)
        /\ last = Call("init", <<>>, "ok", <<>>)
        /\ pre = [data |-> data, tracers |-> tracers, covariance |-> covariance]

FileNext ==
    /\ FirstCall
    /\ \E types \in get_data_types(data), h \in HashValues(data),
          oa \in ObjectArrays(covariance), tv \in TableFromVector(covariance) :
          save_then_load(types, h, oa, tv)

FileSpec == FileInit /\ [][FileNext]_vars

(***************************************************************************)
(* What the properties below are stated with.                              *)
(***************************************************************************)
\* 0-based positions, all in [0, n).
InRange(idx, n) == \A k \in DOMAIN idx : (0 <= idx[k]) /\ (idx[k] < n)

\* The block that covers the 1-based global index i, and where it starts.
BlockStart(sizes, b) == SumSeq(SubSeq(sizes, 1, b - 1))

BlockOf(sizes, i) ==
    CHOOSE b \in DOMAIN sizes :
        (BlockStart(sizes, b) < i) /\ (i <= BlockStart(sizes, b) + sizes[b])

\* A covariance expanded to a full matrix.
Dense(cov) ==
    CASE cov.type = "full" -> cov.covmat
      [] cov.type = "diagonal" ->
           [i \in DOMAIN cov.diag |->
               [j \in DOMAIN cov.diag |-> IF i = j THEN cov.diag[i] ELSE 0]]
      [] cov.type = "block" ->
           LET sizes == block_sizes(cov)
               n == SumSeq(sizes)
           IN [i \in 1..n |-> [j \in 1..n |->
                  LET b == BlockOf(sizes, i)
                      off == BlockStart(sizes, b)
                  IN IF BlockOf(sizes, j) = b
                     THEN cov.blocks[b][i - off][j - off] ELSE 0]]

\* Entry (a, b) is entry (idx[a], idx[b]) of C, for 0-based positions idx.
SubMatrix(C, idx) ==
    [a \in DOMAIN idx |-> [b \in DOMAIN idx |-> C[idx[a] + 1][idx[b] + 1]]]

\* Element a is element idx[a] of s, for 0-based positions idx.
SubList(s, idx) == [a \in DOMAIN idx |-> s[idx[a] + 1]]

\* The 0-based positions of 0..n-1, increasing, that are not in idx.
KeptPositions(idx, n) ==
    TruePositions([k \in 1..n |-> \A j \in DOMAIN idx : idx[j] # k - 1])

Unchanged ==
    /\ data = pre.data
    /\ tracers = pre.tracers
    /\ covariance = pre.covariance

(***************************************************************************)
(* The properties.                                                         *)
(***************************************************************************)
\* C1: in every state reached from the empty data set by add_data_point,
\* add_covariance, reorder, cut and to_canonical_order calls, an attached
\* covariance has as many indices as there are records.
C1_CovarianceSizeIsRecordCount ==
    (covariance # None) => (Size(covariance) = Len(data))

\* C2: after reorder(indices) with in-range indices on a sealed data set,
\* the record at position a is the old record at indices[a] and the
\* covariance entry (a, b) is entry (indices[a], indices[b]) of the old
\* covariance expanded to a full matrix.
C2_ReorderKeepsAlignment ==
    (last.op = "reorder" /\ InRange(last.arg.idx, Len(pre.data)))
    => /\ last.err = "ok"
       /\ data = SubList(pre.data, last.arg.idx)
       /\ covariance # None
       /\ Dense(covariance) = SubMatrix(Dense(pre.covariance), last.arg.idx)

\* C3: add_data_point on a data set that has a covariance attached fails
\* (the ValueError of line 237) whatever its arguments and leaves the
\* records, the tracers and the covariance as they were.
C3_AddWhileSealedFails ==
    (last.op = "add_data_point" /\ pre.covariance # None)
    => (last.err = "ValueError" /\ Unchanged)

C3_Witness ==
    /\ last.op = "add_data_point"
    /\ pre.covariance # None
    /\ Len(pre.data) > 0
    /\ last.err = "ValueError"

\* The side of an argument read as a square matrix (a scalar and a vector
\* of length 1 are 1x1 matrices), or -1 when it is not square.
SquareSide(a) ==
    CASE a.ndim = 0 -> 1
      [] a.ndim = 1 -> IF Len(a.val) = 1 THEN 1 ELSE 0 - 1
      [] a.ndim = 2 ->
           IF \A i \in DOMAIN a.val : Len(a.val[i]) = Len(a.val)
           THEN Len(a.val) ELSE 0 - 1
      [] OTHER -> 0 - 1

\* The argument is a square matrix of side n, or a list of square blocks
\* whose sides sum to n.
RightShape(cov, n) ==
    IF cov.kind = "list"
    THEN /\ \A b \in DOMAIN cov.items : SquareSide(cov.items[b]) >= 0
         /\ SumSeq([b \in DOMAIN cov.items |-> SquareSide(cov.items[b])]) = n
    ELSE SquareSide(cov.items[1]) = n

C5_Case ==
    /\ last.op = "cut"
    /\ last.arg.dtype = "bool"
    /\ last.arg.elems = <<FALSE, TRUE, FALSE>>
    /\ Len(pre.data) = 3
    /\ pre.covariance.type = "full"

\* C5 as stated: cut([False, True, False]) on a 3-record data set with a
\* dense covariance yields a 1-record data set whose single covariance
\* entry is the original element [1][1].
C5_CutKeepsTheMasked ==
    C5_Case
    => /\ Len(data) = 1
       /\ covariance = FullCovariance(<< <<pre.covariance.covmat[2][2]>> >>)

\* C5 as amended: cut([False, True, False]) on a 3-record data set with a
\* dense covariance removes the record at position 1 (True means remove): it
\* yields the 2-record data set of the old records 0 and 2, whose covariance
\* is the 2x2 matrix of the original rows and columns 0 and 2.
C5_CutRemovesTheMasked ==
    C5_Case
    => /\ last.err = "ok"
       /\ data = <<pre.data[1], pre.data[3]>>
       /\ covariance = FullCovariance(SubMatrix(pre.covariance.covmat, <<0, 2>>))

C5_Witness == C5_Case /\ last.err = "ok" /\ Len(data) = 2

\* C6: cut with an integer index list L (any order, duplicates allowed, the
\* empty list included) removes exactly the records at the positions in L,
\* keeps the others in order and restricts the covariance to the kept
\* positions, as cut with the boolean mask that is True at L does.
C6_CutByIndexList ==
    (/\ last.op = "cut"
     /\ \/ last.arg.dtype = "int" /\ InRange(last.arg.elems, Len(pre.data))
        \/ last.arg.dtype = "float" /\ last.arg.elems = <<>>)
    => LET kept == KeptPositions(last.arg.elems, Len(pre.data))
       IN /\ last.err = "ok"
          /\ data = SubList(pre.data, kept)
          /\ Dense(covariance) = SubMatrix(Dense(pre.covariance), kept)

\* C7: cut fails, changing nothing, for a boolean mask of the wrong length
\* and for elements that are neither booleans nor integers; it accepts
\* every boolean mask of the right length and every list of in-range
\* integer indices, the empty list included.
C7_CutArgumentErrors ==
    (last.op = "cut")
    => LET n == Len(pre.data)
           m == last.arg
       IN /\ (m.dtype = "bool" /\ Len(m.elems) # n)
                => (last.err = "ValueError" /\ Unchanged)
          /\ (m.dtype = "float" /\ m.elems # <<>>)
                => (last.err = "ValueError" /\ Unchanged)
          /\ (m.dtype = "bool" /\ Len(m.elems) = n) => (last.err = "ok")
          /\ (m.dtype = "int" /\ InRange(m.elems, n)) => (last.err = "ok")
          /\ (m.dtype = "float" /\ m.elems = <<>>) => (last.err = "ok")

\* C8: reorder with the identity permutation [0, 1, ..., N-1] leaves the
\* records and the covariance (values and representation) as they were, for
\* a dense, a block-diagonal and a diagonal covariance.
C8_IdentityReorderIsNoOp ==
    (/\ last.op = "reorder"
     /\ last.arg.idx = [k \in 1..Len(pre.data) |-> k - 1])
    => (last.err = "ok" /\ Unchanged)

\* The number of blocks that keep at least one of the 0-based positions idx.
BlocksKept(cov, idx) ==
    Cardinality({BlockOf(block_sizes(cov), idx[k] + 1) : k \in DOMAIN idx})

\* C9: masked on a block-diagonal covariance, given a boolean mask or a
\* strictly increasing index selector, returns a block-diagonal covariance
\* with as many blocks as original blocks keep an index; given a selector
\* that is not strictly increasing it returns a dense covariance of the
\* corresponding entries of the expanded matrix.
C9_BlockDiagonalMasked ==
    (/\ last.op = "masked"
     /\ pre.covariance.type = "block"
     /\ last.arg.kind # "bool" => InRange(last.arg.idx, Len(pre.data)))
    => LET idx == IntIdx(last.arg)
       IN /\ last.err = "ok"
          /\ Dense(last.ret) = SubMatrix(Dense(pre.covariance), idx)
          /\ IF last.arg.kind = "bool" \/ StrictlyIncreasing(idx)
             THEN /\ last.ret.type = "block"
                  /\ Len(last.ret.blocks) = BlocksKept(pre.covariance, idx)
             ELSE last.ret.type = "full"

\* C10: get_block(indices), for every representation and every list of
\* in-range indices, is the matrix whose entry (a, b) is entry
\* (indices[a], indices[b]) of the covariance expanded to a full matrix.
C10_GetBlock ==
    (last.op = "get_block" /\ InRange(last.arg.idx, Len(pre.data)))
    => /\ last.err = "ok"
       /\ last.ret = SubMatrix(Dense(pre.covariance), last.arg.idx)

\* An index sequence within [0, N) that is not strictly increasing, handed
\* to masked.
C11_Case ==
    /\ last.op = "masked"
    /\ last.arg.kind # "bool"
    /\ InRange(last.arg.idx, Len(pre.data))
    /\ ~StrictlyIncreasing(last.arg.idx)

\* C11 as stated: masked on any covariance, given an index sequence that is
\* not strictly increasing, fails and returns no covariance.
C11_UnorderedIsInvalidSelector ==
    C11_Case => (last.err # "ok" /\ last.ret = <<>>)

\* C11 as amended: masked on a dense or a diagonal covariance, given an
\* in-range index sequence that is not strictly increasing, does not fail:
\* it returns a covariance of the same representation that holds the
\* selected entries in the order given. On a block-diagonal covariance the
\* result is never block-diagonal.
C11_UnorderedIsSelected ==
    C11_Case
    => CASE pre.covariance.type = "full" ->
              /\ last.err = "ok"
              /\ last.ret = FullCovariance(
                     SubMatrix(pre.covariance.covmat, last.arg.idx))
         [] pre.covariance.type = "diagonal" ->
              /\ last.err = "ok"
              /\ last.ret = DiagonalCovariance(
                     SubList(pre.covariance.diag, last.arg.idx))
         [] pre.covariance.type = "block" ->
              (last.err = "ok") => (last.ret.type = "full")

C11_Witness ==
    /\ C11_Case
    /\ pre.covariance.type = "full"
    /\ last.arg.idx = <<2, 0, 0>>
    /\ last.err = "ok"
    /\ last.ret.covmat[1][2] = Lab(3, 1)

\* C12: masked, get_block and reorder on a sealed data set of N records,
\* given an index selector with an index outside [0, N) (a negative index
\* included), fail with the index error, return nothing and change nothing.
C12_OutOfRangeFails ==
    (/\ last.op \in {"masked", "get_block", "reorder"}
     /\ last.arg.kind # "bool"
     /\ ~InRange(last.arg.idx, Len(pre.data)))
    => /\ last.err = "IndexError"
       /\ last.ret = <<>>
       /\ Unchanged

\* Whether a record passes the filters of an indices call: the type and the
\* tracer tuple when given, and every entry of select, on a tag it has.
Matches(d, arg) ==
    /\ \A t \in arg.data_type : d.data_type = t
    /\ \A t \in arg.tracers : d.tracers = t
    /\ \A k \in DOMAIN arg.select :
          LET p == arg.select[k]
          IN /\ p.name \in DOMAIN d.tags
             /\ CASE p.op = "eq" -> d.tags[p.name] = p.val
                  [] p.op = "lt" -> d.tags[p.name] < p.val
                  [] p.op = "gt" -> d.tags[p.name] > p.val

\* C13: indices returns, in increasing order, exactly the positions of the
\* records that pass the type filter, the tracers filter and every tag
\* entry of select, and leaves the records and the covariance as they were.
C13_IndicesAreTheMatches ==
    (last.op = "indices")
    => /\ last.err = "ok"
       /\ last.ret = TruePositions(
              [k \in DOMAIN pre.data |-> Matches(pre.data[k], last.arg)])
       /\ Unchanged

\* C14: when a record lacks the tag named by a __lt or __gt entry, indices
\* still returns normally, and the positions returned are not those of
\* records lacking the tag.
C14_MissingTagIsNoMatch ==
    (/\ last.op = "indices"
     /\ \E k \in DOMAIN last.arg.select, i \in DOMAIN pre.data :
           /\ last.arg.select[k].op \in {"lt", "gt"}
           /\ last.arg.select[k].name \notin DOMAIN pre.data[i].tags)
    => /\ last.err = "ok"
       /\ \A j \in DOMAIN last.ret, k \in DOMAIN last.arg.select :
             last.arg.select[k].name \in DOMAIN pre.data[last.ret[j] + 1].tags

\* The permutations of the 0-based positions 0..n-1, as sequences.
IndexPermutations(n) ==
    {p \in [1..n -> 0..(n - 1)] : \A a, b \in 1..n : (a # b) => (p[a] # p[b])}

\* C15: to_canonical_order on a sealed data set leaves a permutation of the
\* records that is non-decreasing in the key (type position or hash, tracer
\* tuple, ell or theta or 0), in which the records of one type and tracer
\* tuple are contiguous, and the covariance is the old one with the same
\* permutation applied to its rows and columns.
C15_CanonicalOrder ==
    (last.op = "to_canonical_order")
    => /\ last.err = "ok"
       /\ \E p \in IndexPermutations(Len(pre.data)) :
             /\ data = SubList(pre.data, p)
             /\ Dense(covariance) = SubMatrix(Dense(pre.covariance), p)
       /\ \E h \in HashValues(pre.data) :
             \A k \in 1..(Len(data) - 1) :
                ~KeyLess(order_key(data[k + 1], h), order_key(data[k], h))
       /\ \A i, j, k \in DOMAIN data :
             (/\ i < j /\ j < k
              /\ data[i].data_type = data[k].data_type
              /\ data[i].tracers = data[k].tracers)
             => (/\ data[j].data_type = data[i].data_type
                 /\ data[j].tracers = data[i].tracers)

\* C16: for each of the three representations, from_fits of the to_fits of a
\* covariance is a covariance of the same representation, the same size and
\* block sizes, and the same values.
C16_FitsRoundTrip ==
    (last.op = "fits_round_trip")
    => (last.err = "ok" /\ last.ret = pre.covariance)

\* C17: load of a container written by save returns a data set; the data
\* set has a covariance exactly when the container has a covariance
\* section, and then the covariance has as many indices as there are
\* records.
C17_LoadRestoresSealed ==
    (last.op = "load")
    => /\ last.err = "ok"
       /\ (last.ret.covariance # None) <=> (last.arg.cov # <<>>)
       /\ (last.ret.covariance # None)
             => Size(last.ret.covariance) = Len(last.ret.data)

\* C18: once a covariance is attached, no call takes the data set back to
\* having none, and no call increases the number of records.
C18_SealedStaysSealed ==
    [][(covariance # None)
         => (covariance' # None /\ Len(data') <= Len(data))]_vars

\* C19: a reorder or cut call that raises on a sealed data set leaves the
\* records and the covariance exactly as they were before the call.
C19_FailureChangesNothing ==
    (/\ last.op \in {"reorder", "cut"}
     /\ pre.covariance # None
     /\ last.err # "ok")
    => Unchanged

====
